---- MODULE Spec2Model ----
(***************************************************************************)
(* icns-generator: the size planner, the image renderer and the iconset    *)
(* assembler of src/src/index.js, with the command line of src/bin/cli.js, *)
(* over a small filesystem.                                                *)
(*                                                                         *)
(* A file name is a sequence of one-character strings, a path a sequence   *)
(* of names from the root; a padding percent is the rational n/d.          *)
(***************************************************************************)
EXTENDS Integers, Sequences, FiniteSets, TLC

VARIABLES
  dirs,          \* the directories of the filesystem (absolute paths)
  files,         \* the regular files: path -> content
  entry,         \* the entry point of the call in flight
  options,       \* the options object the caller passed
  pc,            \* the position of the call in flight
  idx,           \* the position of the for-of loop in flight (1-based)
  iconsetResult, \* generateIcns: what generateIconset returned
  rounded,       \* the last sharp pipeline createRoundedImage built
  err,           \* the error thrown by the call in flight
  ret,           \* the value the entry point returned
  exitCode,      \* cli: the process exit code
  runs,          \* calls made so far
  hist,          \* what the call in flight has done so far
  prev           \* the staged set the last successful generateIconset left

vars == <<dirs, files, entry, options, pc, idx, iconsetResult, rounded, err,
          ret, exitCode, runs, hist, prev>>

----------------------------------------------------------------------------
(* Bounds of the model *)

\* calls made one after another on the same filesystem
MaxRuns == 2
\* the largest padding percent the renderer is called with directly
MaxPadPercent == 60

----------------------------------------------------------------------------
(* Strings *)

UpperLetters == <<"A","B","C","D","E","F","G","H","I","J","K","L","M",
                  "N","O","P","Q","R","S","T","U","V","W","X","Y","Z">>
LowerLetters == <<"a","b","c","d","e","f","g","h","i","j","k","l","m",
                  "n","o","p","q","r","s","t","u","v","w","x","y","z">>

\* String.prototype.toLowerCase, one character
LowerChar(c) ==
  IF \E i \in 1..Len(UpperLetters) : UpperLetters[i] = c
  THEN LowerLetters[CHOOSE i \in 1..Len(UpperLetters) : UpperLetters[i] = c]
  ELSE c

toLowerCase(s) == [i \in 1..Len(s) |-> LowerChar(s[i])]

DigitChars == <<"0","1","2","3","4","5","6","7","8","9">>

\* the decimal text of a number, as a template literal `${size}` gives it
RECURSIVE NumberToString(_)
NumberToString(n) ==
  IF n < 10 THEN <<DigitChars[n + 1]>>
  ELSE NumberToString(n \div 10) \o <<DigitChars[(n % 10) + 1]>>

StartsWith(s, p) == Len(s) >= Len(p) /\ SubSeq(s, 1, Len(p)) = p

\* a plain name that keeps the prefix
KeepIconPrefix(name) == name

\* name.replace(/^icon_/, "")
StripIconPrefix(name) ==
  LET p == <<"i","c","o","n","_">>
  IN IF StartsWith(name, p) THEN SubSeq(name, Len(p) + 1, Len(name)) ELSE name

----------------------------------------------------------------------------
(* Paths *)

\* a path as the caller writes it: absolute or relative, a sequence of names
Rel(segs) == [abs |-> FALSE, segs |-> segs]
Abs(segs) == [abs |-> TRUE, segs |-> segs]

Dot == <<".">>
DotDot == <<".",".">>

\* normalisation of "." and ".." names
RECURSIVE Normalize(_)
Normalize(segs) ==
  IF segs = <<>> THEN <<>>
  ELSE LET init == Normalize(SubSeq(segs, 1, Len(segs) - 1))
           last == segs[Len(segs)]
       IN IF last = Dot THEN init
          ELSE IF last = DotDot
               THEN (IF init = <<>> THEN <<>> ELSE SubSeq(init, 1, Len(init) - 1))
               ELSE Append(init, last)

\* path.resolve(base, p), base an absolute path already resolved
PathResolve(base, p) ==
  IF p.abs THEN Normalize(p.segs) ELSE Normalize(base \o p.segs)

\* path.join(dir, name)
PathJoin(dir, name) == Normalize(Append(dir, name))

Parent(p) == SubSeq(p, 1, Len(p) - 1)

IsPrefix(p, q) == Len(p) <= Len(q) /\ SubSeq(q, 1, Len(p)) = p

\* the index of the last "." of a name, 0 when there is none
LastDot(s) ==
  IF \E i \in 1..Len(s) : s[i] = "."
  THEN CHOOSE i \in 1..Len(s) :
         /\ s[i] = "."
         /\ \A j \in (i + 1)..Len(s) : s[j] # "."
  ELSE 0

\* path.extname(p): from the last "." of the base name, "" when there is none
\* or when the name starts with its only "."
PathExtname(p) ==
  IF p = <<>> THEN <<>>
  ELSE LET base == p[Len(p)]
           d == LastDot(base)
       IN IF d <= 1 THEN <<>> ELSE SubSeq(base, d, Len(base))

----------------------------------------------------------------------------
(* Size planner *)

sizes == <<16, 32, 64, 128, 256, 512, 1024>>

\* `icon_${size}x${size}.png`
StandardName(size) ==
  <<"i","c","o","n","_">> \o NumberToString(size) \o <<"x">>
    \o NumberToString(size) \o <<".","p","n","g">>

\* `icon_${size}x${size}@2x.png`
DoubleName(size) ==
  <<"i","c","o","n","_">> \o NumberToString(size) \o <<"x">>
    \o NumberToString(size) \o <<"@","2","x",".","p","n","g">>

\* a size pair whose double-density spec reuses the standard file name
SizePairSameName(size) ==
  << [name |-> StandardName(size), size |-> size],
     [name |-> StandardName(size), size |-> size * 2] >>

\* the two specs one base length yields
SizePair(size) ==
  << [name |-> StandardName(size), size |-> size],
     [name |-> DoubleName(size), size |-> size * 2] >>

RECURSIVE FlatMapSizes(_)
FlatMapSizes(s) ==
  IF s = <<>> THEN <<>> ELSE SizePair(Head(s)) \o FlatMapSizes(Tail(s))

allSizes == FlatMapSizes(sizes)

----------------------------------------------------------------------------
(* Image renderer *)

\* a rounding that truncates
MathTruncate(num, den) == num \div den

\* Math.round(num / den) for num >= 0, den > 0: the nearest integer, a half
\* rounded up
MathRound(num, den) == (2 * num + den) \div (2 * den)

\* Math.round((size * padding) / 100), padding the rational n/d
PaddingPixels(size, padding) == MathRound(size * padding.n, padding.d * 100)

ContentSize(size, padding) == size - PaddingPixels(size, padding) * 2

\* sharp's own check of resize(width, height): positive integers
ResizeAccepts(w, h) == w > 0 /\ h > 0

\* sharp's own check of extend({top, bottom, left, right}): no negative side
ExtendAccepts(t, b, l, r) == t >= 0 /\ b >= 0 /\ l >= 0 /\ r >= 0

\* the image a resize to w x h gives
Resized(w, h) == [width |-> w, height |-> h]

\* the image an extend by t, b, l, r gives
Extended(img, t, b, l, r) ==
  [width |-> img.width + l + r, height |-> img.height + t + b,
   contentX |-> l, contentY |-> t,
   contentWidth |-> img.width, contentHeight |-> img.height]

\* the SVG mask: a rounded rectangle on a size x size canvas; the radius
\* contentSize * 0.2 is kept in fifths of a pixel
MaskSvg(size, paddingPixels, contentSize) ==
  [width |-> size, height |-> size, x |-> paddingPixels, y |-> paddingPixels,
   rectWidth |-> contentSize, rectHeight |-> contentSize,
   radiusFifths |-> contentSize]

\* createRoundedImage(input, size, padding): the pipeline, or the parameter
\* error sharp throws while it is built
createRoundedImage(input, size, padding) ==
  LET paddingPixels == PaddingPixels(size, padding)
      contentSize == ContentSize(size, padding)
  IN IF ~ResizeAccepts(contentSize, contentSize)
     THEN [ok |-> FALSE,
           error |-> [type |-> "InvalidParameter", name |-> "width",
                      value |-> contentSize]]
     ELSE IF ~ExtendAccepts(paddingPixels, paddingPixels, paddingPixels, paddingPixels)
     THEN [ok |-> FALSE,
           error |-> [type |-> "InvalidParameter", name |-> "extend",
                      value |-> paddingPixels]]
     ELSE [ok |-> TRUE,
           input |-> input,
           canvas |-> Extended(Resized(contentSize, contentSize),
                               paddingPixels, paddingPixels,
                               paddingPixels, paddingPixels),
           mask |-> MaskSvg(size, paddingPixels, contentSize),
           format |-> "png"]

\* the PNG a pipeline encodes from the decoded source image
EncodePng(pipeline, source) ==
  [kind |-> "png", image |-> source.image,
   canvas |-> pipeline.canvas, mask |-> pipeline.mask]

----------------------------------------------------------------------------
(* Format check *)

SeqIncludes(s, x) == \E i \in 1..Len(s) : s[i] = x

isSupportedFormat(filePath, supportedFormats) ==
  LET ext == toLowerCase(PathExtname(filePath))
  IN SeqIncludes(supportedFormats, ext)

----------------------------------------------------------------------------
(* Names and default configuration *)

n_w == <<"w">>
n_img == <<"i","m","g">>
n_output == <<"o","u","t","p","u","t">>
n_icons == <<"i","c","o","n","s">>
n_old == <<"o","l","d">>
n_icon_iconset == <<"i","c","o","n",".","i","c","o","n","s","e","t">>
n_icon_icns == <<"i","c","o","n",".","i","c","n","s">>
n_icon_png == <<"i","c","o","n",".","p","n","g">>
n_b_PNG == <<"b",".","P","N","G">>
n_c_xyz == <<"c",".","x","y","z">>
n_no_png == <<"n","o",".","p","n","g">>
n_no_xyz == <<"n","o",".","x","y","z">>
n_junk_txt == <<"j","u","n","k",".","t","x","t">>
n_old_png == <<"o","l","d",".","p","n","g">>

\* process.cwd()
Cwd == <<n_w>>

defaultConfig ==
  [inputFile |-> Rel(<<n_icon_png>>),
   iconsetDir |-> Rel(<<n_icon_iconset>>),
   outputIcns |-> Rel(<<n_icon_icns>>),
   workDir |-> Cwd,
   outputDir |-> Rel(<<n_output>>),
   padding |-> [n |-> 35, d |-> 4],
   supportedFormats |->
     << <<".","p","n","g">>, <<".","j","p","g">>, <<".","j","p","e","g">>,
        <<".","w","e","b","p">>, <<".","t","i","f","f">>, <<".","g","i","f">>,
        <<".","s","v","g">>, <<".","a","v","i","f">>, <<".","h","e","i","f">>,
        <<".","b","m","p">> >>]

\* { ...defaultConfig, ...options }: the caller's fields win, one by one
MergeConfig(defaults, given) ==
  [k \in DOMAIN defaults \cup DOMAIN given |->
     IF k \in DOMAIN given THEN given[k] ELSE defaults[k]]

config == MergeConfig(defaultConfig, options)

inputPath == PathResolve(config.workDir, config.inputFile)
outputDirPath == PathResolve(config.workDir, config.outputDir)
iconsetPath == PathResolve(outputDirPath, config.iconsetDir)
outputPath == PathResolve(outputDirPath, config.outputIcns)
plainDir == PathResolve(outputDirPath, Rel(<<n_icons>>))

----------------------------------------------------------------------------
(* Filesystem *)

Exists(p) == p \in dirs \/ p \in DOMAIN files

\* every directory from the root down to p
Prefixes(p) == {SubSeq(p, 1, k) : k \in 0..Len(p)}

\* a removal that drops the directory's own entry and keeps what is below it
WithoutNode(paths, p) == {q \in paths : q # p}

\* what is left of a set of paths once the tree at p is removed
WithoutTree(paths, p) == {q \in paths : ~IsPrefix(p, q)}

\* the files below a directory, with their content
Listing(dir) ==
  {[path |-> q, data |-> files[q]] :
     q \in {f \in DOMAIN files : IsPrefix(dir, f) /\ f # dir}}

SubDirs(dir) == {d \in dirs : IsPrefix(dir, d) /\ d # dir}

\* the image sharp decodes from a path: only an image file decodes
Decodable(p) == p \in DOMAIN files /\ files[p].kind = "image"

\* a file can be created or replaced at p
Writable(p) == p # <<>> /\ Parent(p) \in dirs /\ p \notin dirs

----------------------------------------------------------------------------
(* Calls *)

NoError == [type |-> "none"]
NoReturn == [returned |-> FALSE, value |-> <<>>]
NoPipeline == [ok |-> FALSE, error |-> NoError]

NoHist ==
  [dirOps |-> {}, written |-> <<>>, packs |-> 0, packOk |-> FALSE,
   packSnap |-> {}, copied |-> <<>>, source |-> NoError,
   staleStaged |-> FALSE, stalePlain |-> FALSE,
   setReturned |-> FALSE, staged |-> {}]

NoPrev == [valid |-> FALSE, key |-> <<>>, staged |-> {}]

EmptyOptions == [k \in {} |-> 0]

\* the options a caller of the library passes: each field given or left out
InputFileOptions ==
  {EmptyOptions} \cup
  {[inputFile |-> f] :
     f \in {Abs(<<n_img, n_b_PNG>>), Rel(<<Dot, n_c_xyz>>),
            Rel(<<n_no_png>>), Rel(<<n_no_xyz>>)}}

PaddingOptions ==
  {EmptyOptions} \cup {[padding |-> p] : p \in {[n |-> 0, d |-> 1], [n |-> 50, d |-> 1]}}

FormatOptions ==
  {EmptyOptions} \cup
  {[supportedFormats |-> f] :
     f \in { << <<".","P","N","G">>, <<".","x","y","z">> >> }}

\* every input with every padding under the default allowlist, and the
\* caller's allowlist with the default input and with the .xyz file
LibraryOptions ==
  {MergeConfig(i, p) : i \in InputFileOptions, p \in PaddingOptions} \cup
  {MergeConfig(i, f) :
     i \in {EmptyOptions, [inputFile |-> Rel(<<Dot, n_c_xyz>>)]},
     f \in FormatOptions \ {EmptyOptions}}

\* the command line's parsed options, commander's defaults filled in
CliOptions ==
  {[input |-> i, output |-> Rel(<<n_icon_icns>>), dir |-> Rel(<<n_icon_iconset>>),
    workDir |-> Cwd, outputDir |-> Rel(<<n_output>>), padding |-> p] :
     i \in {Rel(<<n_icon_png>>), Abs(<<n_img, n_b_PNG>>), Rel(<<n_no_xyz>>)},
     p \in {[n |-> 35, d |-> 4], [n |-> 50, d |-> 1]}}

CanCall == pc \in {"idle", "returned", "threw", "exited"} /\ runs < MaxRuns

\* what a call starts from; the staged set of the last successful
\* generateIconset is remembered
StartCall(e, o, first) ==
  /\ CanCall
  /\ entry' = e
  /\ options' = o
  /\ pc' = first
  /\ idx' = 0
  /\ iconsetResult' = <<>>
  /\ rounded' = NoPipeline
  /\ err' = NoError
  /\ ret' = NoReturn
  /\ exitCode' = -1
  /\ runs' = runs + 1
  /\ hist' = LET c == MergeConfig(defaultConfig, o)
                  p == PathResolve(c.workDir, c.inputFile)
                  out == PathResolve(c.workDir, c.outputDir)
              IN [NoHist EXCEPT
                    !.source = IF p \in DOMAIN files THEN files[p] ELSE NoError,
                    !.staleStaged = Listing(PathResolve(out, c.iconsetDir)) # {},
                    !.stalePlain = Listing(PathResolve(out, Rel(<<n_icons>>))) # {}]
  /\ prev' = IF hist.setReturned
             THEN [valid |-> TRUE,
                   key |-> <<hist.source, config.padding, iconsetPath>>,
                   staged |-> hist.staged]
             ELSE prev
  /\ UNCHANGED <<dirs, files>>

CallGenerateIconset(o) == StartCall("generateIconset", o, "set_outdir")

CallGenerateIcns(o) == StartCall("generateIcns", o, "icns_outdir")

\* cli.js: generateIcns({inputFile, outputIcns, iconsetDir, workDir,
\* outputDir, padding}) from the parsed command line
CallCli(a) ==
  StartCall("cli",
            [inputFile |-> a.input, outputIcns |-> a.output,
             iconsetDir |-> a.dir, workDir |-> a.workDir,
             outputDir |-> a.outputDir, padding |-> a.padding],
            "icns_outdir")

\* an error generateIconset swallows: generateIcns goes on to packaging
SwallowFromIconset(e) ==
  /\ err' = e
  /\ pc' = IF entry = "generateIconset" THEN "threw" ELSE "icns_pack"

\* an error thrown inside generateIconset: to its caller, or to the catch
\* block of generateIcns
ThrowFromIconset(e) ==
  /\ err' = e
  /\ pc' = IF entry = "generateIconset" THEN "threw" ELSE "icns_catch"

\* if (!fs.existsSync(outputDirPath)) await fs.mkdir(outputDirPath, {recursive})
EnsureOutputDir(next) ==
  /\ IF ~Exists(outputDirPath)
     THEN /\ dirs' = dirs \cup Prefixes(outputDirPath)
          /\ hist' = [hist EXCEPT !.dirOps =
                        @ \cup {[op |-> "mkdir", path |-> outputDirPath,
                                 by |-> "outputDir"]}]
     ELSE UNCHANGED <<dirs, hist>>
  /\ pc' = next
  /\ UNCHANGED <<files, entry, options, idx, iconsetResult, rounded, err, ret,
                 exitCode, runs, prev>>

IcnsEnsureOutputDir == pc = "icns_outdir" /\ EnsureOutputDir("set_outdir")

SetEnsureOutputDir == pc = "set_outdir" /\ EnsureOutputDir("set_exists")

\* an existence check whose message names the path as the caller gave it
SetCheckExistsUnresolved ==
  /\ pc = "set_exists"
  /\ IF ~Exists(inputPath)
     THEN ThrowFromIconset([type |-> "InputMissing", path |-> config.inputFile.segs])
     ELSE pc' = "set_format" /\ err' = err
  /\ UNCHANGED <<dirs, files, entry, options, idx, iconsetResult, rounded, ret,
                 exitCode, runs, hist, prev>>

\* if (!fs.existsSync(inputPath)) throw
SetCheckExists ==
  /\ pc = "set_exists"
  /\ IF ~Exists(inputPath)
     THEN ThrowFromIconset([type |-> "InputMissing", path |-> inputPath])
     ELSE pc' = "set_format" /\ err' = err
  /\ UNCHANGED <<dirs, files, entry, options, idx, iconsetResult, rounded, ret,
                 exitCode, runs, hist, prev>>

\* a format check made after the staging directory is removed
SetCheckFormatAfterRemove ==
  /\ pc = "set_format"
  /\ IF ~isSupportedFormat(inputPath, config.supportedFormats)
     THEN /\ ThrowFromIconset([type |-> "UnsupportedFormat",
                               ext |-> PathExtname(inputPath),
                               formats |-> config.supportedFormats])
          /\ dirs' = {q \in dirs : ~IsPrefix(iconsetPath, q)}
          /\ files' = [q \in {f \in DOMAIN files : ~IsPrefix(iconsetPath, f)} |-> files[q]]
          /\ hist' = [hist EXCEPT !.dirOps =
                        @ \cup {[op |-> "remove", path |-> iconsetPath,
                                 by |-> "staging"]}]
     ELSE /\ pc' = "set_remove" /\ err' = err
          /\ UNCHANGED <<dirs, files, hist>>
  /\ UNCHANGED <<entry, options, idx, iconsetResult, rounded, ret, exitCode,
                 runs, prev>>

\* if (!isSupportedFormat(inputPath, supportedFormats)) throw
SetCheckFormat ==
  /\ pc = "set_format"
  /\ IF ~isSupportedFormat(inputPath, config.supportedFormats)
     THEN ThrowFromIconset([type |-> "UnsupportedFormat",
                            ext |-> PathExtname(inputPath),
                            formats |-> config.supportedFormats])
     ELSE pc' = "set_remove" /\ err' = err
  /\ UNCHANGED <<dirs, files, entry, options, idx, iconsetResult, rounded, ret,
                 exitCode, runs, hist, prev>>

\* fs.remove(path): the tree at path, if any
RemoveTree(path, next, by) ==
  /\ dirs' = WithoutTree(dirs, path)
  /\ files' = [q \in WithoutTree(DOMAIN files, path) |-> files[q]]
  /\ hist' = [hist EXCEPT !.dirOps =
                 @ \cup {[op |-> "remove", path |-> path, by |-> by]}]
  /\ pc' = next
  /\ err' = err

\* fs.mkdir(path), not recursive
MakeDir(path, next, failed, by) ==
  IF path # <<>> /\ Parent(path) \in dirs /\ ~Exists(path)
  THEN /\ dirs' = dirs \cup {path}
       /\ hist' = [hist EXCEPT !.dirOps =
                      @ \cup {[op |-> "mkdir", path |-> path, by |-> by]}]
       /\ pc' = next
       /\ err' = err
  ELSE /\ err' = [type |-> IF Exists(path) THEN "EEXIST" ELSE "ENOENT", path |-> path]
       /\ pc' = failed
       /\ UNCHANGED <<dirs, hist>>

\* await fs.remove(iconsetPath)
SetRemove ==
  /\ pc = "set_remove"
  /\ RemoveTree(iconsetPath, "set_mkdir", "staging")
  /\ UNCHANGED <<entry, options, idx, iconsetResult, rounded, ret, exitCode,
                 runs, prev>>

\* await fs.mkdir(iconsetPath)
SetMkdir ==
  /\ pc = "set_mkdir"
  /\ MakeDir(iconsetPath, "set_loop",
             IF entry = "generateIconset" THEN "threw" ELSE "icns_catch",
             "staging")
  /\ idx' = 1
  /\ UNCHANGED <<files, entry, options, iconsetResult, rounded, ret, exitCode,
                 runs, prev>>

InLoop == pc = "set_loop" /\ idx <= Len(allSizes)

LoopPipeline ==
  createRoundedImage(inputPath, allSizes[idx].size, config.padding)

LoopOutputPath == PathJoin(iconsetPath, allSizes[idx].name)

\* one iteration whose createRoundedImage throws: sharp rejects the sizes
SetRenderRejected ==
  /\ InLoop
  /\ ~LoopPipeline.ok
  /\ rounded' = LoopPipeline
  /\ ThrowFromIconset(LoopPipeline.error)
  /\ UNCHANGED <<dirs, files, entry, options, idx, iconsetResult, ret, exitCode,
                 runs, hist, prev>>

\* one iteration: the pipeline is built, the source decoded, the file written
SetRenderWrite ==
  /\ InLoop
  /\ LoopPipeline.ok
  /\ Decodable(inputPath)
  /\ Writable(LoopOutputPath)
  /\ rounded' = LoopPipeline
  /\ files' = (LoopOutputPath :> EncodePng(LoopPipeline, files[inputPath])) @@ files
  /\ hist' = [hist EXCEPT !.written = Append(@, allSizes[idx].name)]
  /\ idx' = idx + 1
  /\ UNCHANGED <<dirs, entry, options, pc, iconsetResult, err, ret, exitCode,
                 runs, prev>>

\* a failing iteration that rolls the staging directory back to empty
SetRenderFailRollback ==
  /\ InLoop
  /\ LoopPipeline.ok
  /\ rounded' = LoopPipeline
  /\ ThrowFromIconset([type |-> "RenderFailed", path |-> inputPath])
  /\ files' = [q \in {f \in DOMAIN files : ~IsPrefix(iconsetPath, f)} |-> files[q]]
  /\ UNCHANGED <<dirs, entry, options, idx, iconsetResult, ret, exitCode,
                 runs, hist, prev>>

\* one iteration whose toFile rejects: the source does not decode, or the
\* codec or the write fails
SetRenderFail ==
  /\ InLoop
  /\ LoopPipeline.ok
  /\ rounded' = LoopPipeline
  /\ ThrowFromIconset([type |-> "RenderFailed", path |-> inputPath])
  /\ UNCHANGED <<dirs, files, entry, options, idx, iconsetResult, ret, exitCode,
                 runs, hist, prev>>

\* return iconsetPath
SetReturn ==
  /\ pc = "set_loop"
  /\ idx > Len(allSizes)
  /\ hist' = [hist EXCEPT !.setReturned = TRUE, !.staged = Listing(iconsetPath)]
  /\ IF entry = "generateIconset"
     THEN /\ ret' = [returned |-> TRUE, value |-> iconsetPath]
          /\ pc' = "returned"
          /\ UNCHANGED iconsetResult
     ELSE /\ iconsetResult' = iconsetPath
          /\ pc' = "icns_pack"
          /\ UNCHANGED ret
  /\ UNCHANGED <<dirs, files, entry, options, idx, rounded, err, exitCode, runs,
                 prev>>

\* execSync(`iconutil -c icns ...`): the compiler writes the artifact
IcnsPackOk ==
  /\ pc = "icns_pack"
  /\ Writable(outputPath)
  /\ files' = (outputPath :> [kind |-> "icns", image |-> "-"]) @@ files
  /\ hist' = [hist EXCEPT !.packs = @ + 1, !.packOk = TRUE,
                          !.packSnap = Listing(iconsetResult)]
  /\ pc' = "icns_plain_remove"
  /\ UNCHANGED <<dirs, entry, options, idx, iconsetResult, rounded, err, ret,
                 exitCode, runs, prev>>

\* execSync throws: the compiler exits non-zero
IcnsPackFail ==
  /\ pc = "icns_pack"
  /\ hist' = [hist EXCEPT !.packs = @ + 1, !.packSnap = Listing(iconsetResult)]
  /\ err' = [type |-> "PackagingFailed", path |-> outputPath]
  /\ pc' = "icns_catch"
  /\ UNCHANGED <<dirs, files, entry, options, idx, iconsetResult, rounded, ret,
                 exitCode, runs, prev>>

\* await fs.remove(plainDir)
IcnsPlainRemove ==
  /\ pc = "icns_plain_remove"
  /\ RemoveTree(plainDir, "icns_plain_mkdir", "plain")
  /\ UNCHANGED <<entry, options, idx, iconsetResult, rounded, ret, exitCode,
                 runs, prev>>

\* await fs.mkdir(plainDir)
IcnsPlainMkdir ==
  /\ pc = "icns_plain_mkdir"
  /\ MakeDir(plainDir, "icns_copy", "icns_catch", "plain")
  /\ idx' = 1
  /\ UNCHANGED <<files, entry, options, iconsetResult, rounded, ret, exitCode,
                 runs, prev>>

\* one iteration of the plain export: fs.copyFile(srcFile, destFile)
IcnsCopyOne ==
  /\ pc = "icns_copy"
  /\ idx <= Len(allSizes)
  /\ LET name == allSizes[idx].name
         srcFile == PathJoin(iconsetResult, name)
         plainName == StripIconPrefix(name)
         destFile == PathJoin(plainDir, plainName)
     IN IF srcFile \in DOMAIN files /\ Writable(destFile)
        THEN /\ files' = (destFile :> files[srcFile]) @@ files
             /\ hist' = [hist EXCEPT !.copied = Append(@, plainName)]
             /\ idx' = idx + 1
             /\ UNCHANGED <<pc, err>>
        ELSE /\ err' = [type |-> "ENOENT", path |-> srcFile]
             /\ pc' = "icns_catch"
             /\ UNCHANGED <<files, hist, idx>>
  /\ UNCHANGED <<dirs, entry, options, iconsetResult, rounded, ret, exitCode,
                 runs, prev>>

\* return outputPath; the command line's process then ends with code 0
IcnsReturn ==
  /\ pc = "icns_copy"
  /\ idx > Len(allSizes)
  /\ ret' = [returned |-> TRUE, value |-> outputPath]
  /\ pc' = IF entry = "cli" THEN "exited" ELSE "returned"
  /\ exitCode' = IF entry = "cli" THEN 0 ELSE exitCode
  /\ UNCHANGED <<dirs, files, entry, options, idx, iconsetResult, rounded, err,
                 runs, hist, prev>>

\* a catch block that logs the error and reports the output path all the same
IcnsCatchSwallow ==
  /\ pc = "icns_catch"
  /\ pc' = IF entry = "cli" THEN "exited" ELSE "returned"
  /\ ret' = [returned |-> TRUE, value |-> outputPath]
  /\ exitCode' = IF entry = "cli" THEN 0 ELSE exitCode
  /\ UNCHANGED <<dirs, files, entry, options, idx, iconsetResult, rounded, err,
                 runs, hist, prev>>

\* catch (err) { console.error(...); throw err; }
IcnsCatch ==
  /\ pc = "icns_catch"
  /\ pc' = IF entry = "cli" THEN "cli_catch" ELSE "threw"
  /\ UNCHANGED <<dirs, files, entry, options, idx, iconsetResult, rounded, err,
                 ret, exitCode, runs, hist, prev>>

\* cli.js: catch (error) { console.error(...); process.exit(1); }
CliCatch ==
  /\ pc = "cli_catch"
  /\ exitCode' = 1
  /\ pc' = "exited"
  /\ UNCHANGED <<dirs, files, entry, options, idx, iconsetResult, rounded, err,
                 ret, runs, hist, prev>>

----------------------------------------------------------------------------
(* The filesystem a call finds *)

SourceFiles ==
  (<<n_w, n_icon_png>> :> [kind |-> "image", image |-> "A"]) @@
  (<<n_img, n_b_PNG>> :> [kind |-> "image", image |-> "B"]) @@
  (<<n_w, n_c_xyz>> :> [kind |-> "text", image |-> "-"])

SourceDirs == {<<>>, <<n_w>>, <<n_img>>}

\* an output directory left by earlier use: stale files and a stale directory
\* in the staging directory, a stale file in the plain export
StaleDirs ==
  {<<n_w, n_output>>, <<n_w, n_output, n_icon_iconset>>,
   <<n_w, n_output, n_icon_iconset, n_old>>, <<n_w, n_output, n_icons>>}

StaleFiles ==
  (<<n_w, n_output, n_icon_iconset, n_junk_txt>> :> [kind |-> "text", image |-> "-"]) @@
  (<<n_w, n_output, n_icon_iconset, n_old, n_old_png>> :> [kind |-> "image", image |-> "B"]) @@
  (<<n_w, n_output, n_icons, n_old_png>> :> [kind |-> "image", image |-> "B"])

Init ==
  /\ \/ dirs = SourceDirs /\ files = SourceFiles
     \/ dirs = SourceDirs \cup StaleDirs /\ files = StaleFiles @@ SourceFiles
  /\ entry = "none"
  /\ options = EmptyOptions
  /\ pc = "idle"
  /\ idx = 0
  /\ iconsetResult = <<>>
  /\ rounded = NoPipeline
  /\ err = NoError
  /\ ret = NoReturn
  /\ exitCode = -1
  /\ runs = 0
  /\ hist = NoHist
  /\ prev = NoPrev

Next ==
  \/ \E o \in LibraryOptions : CallGenerateIconset(o)
  \/ \E o \in LibraryOptions : CallGenerateIcns(o)
  \/ \E a \in CliOptions : CallCli(a)
  \/ IcnsEnsureOutputDir
  \/ SetEnsureOutputDir
  \/ SetCheckExists
  \/ SetCheckFormat
  \/ SetRemove
  \/ SetMkdir
  \/ SetRenderRejected
  \/ SetRenderWrite
  \/ SetRenderFail
  \/ SetReturn
  \/ IcnsPackOk
  \/ IcnsPackFail
  \/ IcnsPlainRemove
  \/ IcnsPlainMkdir
  \/ IcnsCopyOne
  \/ IcnsReturn
  \/ IcnsCatch
  \/ CliCatch

Spec == Init /\ [][Next]_vars

----------------------------------------------------------------------------
(* The renderer called on its own: createRoundedImage is exported *)

\* the edge lengths the planner produces
PlannedEdges == {allSizes[i].size : i \in 1..Len(allSizes)}

\* padding percents n/d from 0 to MaxPadPercent, in whole and quarter percents
PaddingInputs ==
  {[n |-> k, d |-> 1] : k \in 0..MaxPadPercent} \cup
  {[n |-> k, d |-> 4] : k \in 0..(MaxPadPercent * 4)}

InitRender ==
  /\ dirs = SourceDirs
  /\ files = SourceFiles
  /\ entry = "createRoundedImage"
  /\ \E s \in PlannedEdges, p \in PaddingInputs :
       options = [input |-> <<n_w, n_icon_png>>, size |-> s, padding |-> p]
  /\ pc = "render_call"
  /\ idx = 0
  /\ iconsetResult = <<>>
  /\ rounded = NoPipeline
  /\ err = NoError
  /\ ret = NoReturn
  /\ exitCode = -1
  /\ runs = 0
  /\ hist = NoHist
  /\ prev = NoPrev

\* createRoundedImage(input, size, padding) returns the pipeline or throws
CallCreateRoundedImage ==
  /\ pc = "render_call"
  /\ LET r == createRoundedImage(options.input, options.size, options.padding)
     IN /\ rounded' = r
        /\ IF r.ok
           THEN pc' = "returned" /\ err' = err
           ELSE pc' = "threw" /\ err' = r.error
  /\ UNCHANGED <<dirs, files, entry, options, idx, iconsetResult, ret, exitCode,
                 runs, hist, prev>>

NextRender == CallCreateRoundedImage

SpecRender == InitRender /\ [][NextRender]_vars

----------------------------------------------------------------------------
(* What the claims are stated with: the canonical names written out, and    *)
(* rounding stated by its defining inequality                               *)

CanonicalBases == {16, 32, 64, 128, 256, 512, 1024}

CanonicalOrder == <<16, 32, 64, 128, 256, 512, 1024>>

DecimalText(L) ==
  CASE L = 16 -> <<"1","6">>
    [] L = 32 -> <<"3","2">>
    [] L = 64 -> <<"6","4">>
    [] L = 128 -> <<"1","2","8">>
    [] L = 256 -> <<"2","5","6">>
    [] L = 512 -> <<"5","1","2">>
    [] L = 1024 -> <<"1","0","2","4">>

\* {L}x{L}.png and {L}x{L}@2x.png
PlainStandard(L) == DecimalText(L) \o <<"x">> \o DecimalText(L) \o <<".","p","n","g">>
PlainDouble(L) ==
  DecimalText(L) \o <<"x">> \o DecimalText(L) \o <<"@","2","x",".","p","n","g">>

\* icon_{L}x{L}.png and icon_{L}x{L}@2x.png
IconStandard(L) == <<"i","c","o","n","_">> \o PlainStandard(L)
IconDouble(L) == <<"i","c","o","n","_">> \o PlainDouble(L)

IconNames == {IconStandard(L) : L \in CanonicalBases} \cup {IconDouble(L) : L \in CanonicalBases}
PlainNames == {PlainStandard(L) : L \in CanonicalBases} \cup {PlainDouble(L) : L \in CanonicalBases}

\* the 14 canonical names in planner order
IconNameOrder ==
  [i \in 1..14 |->
     IF i % 2 = 1 THEN IconStandard(CanonicalOrder[(i + 1) \div 2])
     ELSE IconDouble(CanonicalOrder[i \div 2])]

\* pp is round(size * n/d / 100): within a half of it, a half going up
IsRounded(pp, size, padding) ==
  LET den == padding.d * 100
      num == size * padding.n
  IN 2 * pp * den - den <= 2 * num /\ 2 * num < 2 * pp * den + den

PathsOf(listing) == {e.path : e \in listing}

\* the entry points that generate
Generating == entry \in {"generateIconset", "generateIcns", "cli"}

\* the call in flight has ended
Ended == pc \in {"returned", "threw", "exited"}

\* generateIconset has just returned: to its caller, or into generateIcns
IconsetReturned ==
  /\ hist.setReturned
  /\ \/ entry = "generateIconset" /\ pc = "returned"
     \/ entry \in {"generateIcns", "cli"} /\ pc = "icns_pack"

\* the only directory operation so far is the creation of the output directory
OnlyOutputDirCreated ==
  \A o \in hist.dirOps :
    o.by = "outputDir" /\ o.op = "mkdir" /\ o.path = outputDirPath

NotDot(x) == x # Dot

\* the working directory followed by the input path as given, or the input
\* path alone when it is absolute
ExpectedInputPath ==
  IF config.inputFile.abs THEN config.inputFile.segs
  ELSE config.workDir \o SelectSeq(config.inputFile.segs, NotDot)

\* some allowlist entry equals the extension, letter case ignored
MatchesIgnoringCase(ext, formats) ==
  \E i \in 1..Len(formats) : toLowerCase(formats[i]) = toLowerCase(ext)

\* the padding leaves no content at some planned edge length
NonPositiveContent(padding) ==
  \E i \in 1..Len(allSizes) : \E pp \in 0..(2 * allSizes[i].size) :
    IsRounded(pp, allSizes[i].size, padding) /\ allSizes[i].size - 2 * pp <= 0

----------------------------------------------------------------------------
(* C1 *)

\* C1: when generateIconset returns, the staging directory holds exactly the
\* 14 canonical files and nothing else, whatever it held before; each file
\* is the render of the source image at its edge length (files of the same
\* edge length are the same), and a run with the source, padding and staging
\* path of the previous successful run leaves the staged set that run left.
C1_StagedSet ==
  IconsetReturned =>
    /\ iconsetPath \in dirs
    /\ SubDirs(iconsetPath) = {}
    /\ PathsOf(Listing(iconsetPath)) = {Append(iconsetPath, n) : n \in IconNames}
    /\ Cardinality(PathsOf(Listing(iconsetPath))) = 14
    /\ \A L \in CanonicalBases :
         LET f == files[Append(iconsetPath, IconStandard(L))]
             g == files[Append(iconsetPath, IconDouble(L))]
         IN /\ f.kind = "png" /\ g.kind = "png"
            /\ f.image = hist.source.image /\ g.image = hist.source.image
            /\ f.canvas.width = L /\ f.canvas.height = L
            /\ g.canvas.width = 2 * L /\ g.canvas.height = 2 * L
    /\ \A e1, e2 \in Listing(iconsetPath) :
         e1.data.canvas.width = e2.data.canvas.width => e1.data = e2.data
    /\ (prev.valid /\ prev.key = <<hist.source, config.padding, iconsetPath>>)
         => Listing(iconsetPath) = prev.staged

\* a second run with the inputs of the first, over the set the first left
C1_Witness ==
  /\ IconsetReturned
  /\ entry = "generateIconset"
  /\ hist.staleStaged
  /\ prev.valid
  /\ prev.key = <<hist.source, config.padding, iconsetPath>>

----------------------------------------------------------------------------
(* C2 *)

\* C2: iconutil is invoked only once generateIconset has returned with all 14
\* specs rendered and written, in planner order, in this run, and every one
\* of them in the staging directory; never on a partial set, and never after
\* an input or rendering failure.
C2_PackAfterFullStaging ==
  /\ (pc = "icns_pack" \/ hist.packs > 0) =>
       /\ hist.setReturned
       /\ Len(hist.written) = 14
       /\ \A i \in 1..14 : hist.written[i] = IconNameOrder[i]
       /\ err.type \notin {"InputMissing", "UnsupportedFormat",
                           "InvalidParameter", "RenderFailed"}
  /\ pc = "icns_pack" =>
       /\ err = NoError
       /\ \A n \in IconNames : Append(iconsetResult, n) \in DOMAIN files
  /\ hist.packs > 0 =>
       \A n \in IconNames :
         \E e \in hist.packSnap :
           /\ e.path = Append(iconsetPath, n)
           /\ e.data.kind = "png"
           /\ e.data.image = hist.source.image

\* iconutil has run over a staging directory that held stale files before
C2_Witness == hist.packs = 1 /\ hist.packOk /\ hist.staleStaged

----------------------------------------------------------------------------
(* C3 *)

\* C3: generateIcns returns the resolved output path only if iconutil
\* succeeded in that run; when iconutil fails the call ends with that error,
\* returns nothing (the command line exits with code 1), and iconutil is not
\* invoked again.
C3_ReturnOnlyAfterPackaging ==
  /\ (entry \in {"generateIcns", "cli"} /\ ret.returned) =>
       /\ hist.packOk
       /\ err = NoError
       /\ ret.value = config.workDir \o config.outputDir.segs \o config.outputIcns.segs
  /\ (hist.packs > 0 /\ ~hist.packOk) =>
       /\ err.type = "PackagingFailed"
       /\ ~ret.returned
       /\ pc \in {"icns_catch", "cli_catch", "threw", "exited"}
       /\ exitCode \in {-1, 1}
       /\ (pc = "exited" => exitCode = 1)
  /\ hist.packs <= 1
  /\ (entry = "cli" /\ exitCode = 0) => (ret.returned /\ hist.packOk)

\* a call that ended with the packaging error
C3_Witness ==
  /\ entry = "generateIcns"
  /\ pc = "threw"
  /\ err.type = "PackagingFailed"
  /\ hist.packs = 1

----------------------------------------------------------------------------
(* C5 *)

\* C5 as stated: when the unsupported-format error is raised for an extension
\* that matches no allowlist entry, the run has created, removed or recreated
\* no directory at all.
C5_NoDirectoryTouched ==
  (/\ err.type = "UnsupportedFormat"
   /\ ~MatchesIgnoringCase(PathExtname(inputPath), config.supportedFormats))
    => hist.dirOps = {}

\* C5, amended: an existing input whose extension matches no allowlist entry
\* fails with the unsupported-format error before the staging and the plain
\* export directories are created, removed or recreated and before any render
\* or packaging; the only directory the run may have created by then is the
\* output directory.
C5_OnlyOutputDirTouched ==
  /\ err.type = "UnsupportedFormat" =>
       /\ OnlyOutputDirCreated
       /\ hist.source # NoError
       /\ hist.written = <<>>
       /\ rounded = NoPipeline
       /\ hist.packs = 0
       /\ hist.copied = <<>>
       /\ ~ret.returned
  /\ (Generating /\ Ended /\ hist.source # NoError
        /\ ~MatchesIgnoringCase(PathExtname(inputPath), config.supportedFormats))
       => err.type = "UnsupportedFormat"

\* the .xyz input is rejected by a run that had to create the output directory
C5_Witness ==
  /\ err.type = "UnsupportedFormat"
  /\ err.ext = <<".","x","y","z">>
  /\ Ended
  /\ hist.dirOps # {}

----------------------------------------------------------------------------
(* C6 *)

\* C6: when no file exists at the resolved input path the call fails with
\* the missing-input error naming exactly that path, before the staging or
\* the plain export directory is removed or recreated (only the output
\* directory may have been created), with no render and no packaging; and
\* the existence check comes first: such a call never ends with the
\* unsupported-format error.
C6_MissingInput ==
  /\ err.type = "InputMissing" =>
       /\ err.path = ExpectedInputPath
       /\ err.path \notin DOMAIN files
       /\ err.path \notin dirs
       /\ OnlyOutputDirCreated
       /\ hist.written = <<>>
       /\ rounded = NoPipeline
       /\ hist.packs = 0
       /\ hist.copied = <<>>
       /\ ~ret.returned
  /\ (Generating /\ Ended /\ hist.source = NoError) => err.type = "InputMissing"
  /\ (Generating /\ hist.source = NoError) => err.type \in {"none", "InputMissing"}

\* a missing input whose extension is not in the allowlist either
C6_Witness ==
  /\ err.type = "InputMissing"
  /\ err.path = <<n_w, n_no_xyz>>
  /\ Ended
  /\ hist.dirOps # {}

----------------------------------------------------------------------------
(* C7 *)

\* C7: when the padding leaves no content at some planned edge length, the
\* run fails before any file I/O: the staging directory is neither removed
\* nor recreated and no file is written.
C7_ConfigErrorBeforeIO ==
  (Generating /\ NonPositiveContent(config.padding)) =>
    /\ \A o \in hist.dirOps : o.by = "outputDir"
    /\ hist.written = <<>>

----------------------------------------------------------------------------
(* C8 *)

\* C8: when generateIcns returns, the plain export directory holds exactly
\* the 14 files {L}x{L}.png and {L}x{L}@2x.png and nothing else, whatever it
\* held before, each with the content of its staged counterpart; the 14
\* names are pairwise distinct; and the directory is cleared and populated
\* only after iconutil succeeded.
C8_PlainExport ==
  /\ (entry \in {"generateIcns", "cli"} /\ ret.returned) =>
       /\ plainDir \in dirs
       /\ SubDirs(plainDir) = {}
       /\ PathsOf(Listing(plainDir)) = {Append(plainDir, n) : n \in PlainNames}
       /\ Cardinality(PathsOf(Listing(plainDir))) = 14
       /\ \A L \in CanonicalBases :
            /\ files[Append(plainDir, PlainStandard(L))]
                 = files[Append(iconsetPath, IconStandard(L))]
            /\ files[Append(plainDir, PlainDouble(L))]
                 = files[Append(iconsetPath, IconDouble(L))]
            /\ files[Append(plainDir, PlainStandard(L))].kind = "png"
            /\ files[Append(plainDir, PlainStandard(L))].canvas.width = L
            /\ files[Append(plainDir, PlainDouble(L))].canvas.width = 2 * L
  /\ \A i, j \in 1..Len(hist.copied) : hist.copied[i] = hist.copied[j] => i = j
  /\ ((\E o \in hist.dirOps : o.by = "plain") \/ hist.copied # <<>>
        \/ pc \in {"icns_plain_remove", "icns_plain_mkdir", "icns_copy"})
       => hist.packOk

\* generateIcns returned over a plain export directory that held a stale file
C8_Witness ==
  /\ entry = "generateIcns"
  /\ pc = "returned"
  /\ ret.returned
  /\ hist.stalePlain
  /\ Len(hist.copied) = 14

----------------------------------------------------------------------------
(* C10 *)

\* C10: the input is rejected with the unsupported-format error only if no
\* allowlist entry equals its extension with letter case ignored, and it is
\* accepted (the run goes on to reset the staging directory) only if some
\* entry does.
C10_CaseInsensitiveAllowlist ==
  /\ err.type = "UnsupportedFormat" =>
       ~MatchesIgnoringCase(PathExtname(inputPath), config.supportedFormats)
  /\ (\E o \in hist.dirOps : o.by = "staging") =>
       MatchesIgnoringCase(PathExtname(inputPath), config.supportedFormats)

----------------------------------------------------------------------------
(* C4 *)

\* C4: the planner's output is the 14 specs (icon_{L}x{L}.png, L),
\* (icon_{L}x{L}@2x.png, 2L) for L = 16, ..., 1024 in ascending order, the
\* standard spec right before the double one; the 14 names are pairwise
\* distinct; and the assembler's loop writes its files in that order.
C4_PlannerOutput ==
  /\ Len(allSizes) = 14
  /\ \A k \in 1..7 :
       /\ allSizes[2 * k - 1] =
            [name |-> IconStandard(CanonicalOrder[k]), size |-> CanonicalOrder[k]]
       /\ allSizes[2 * k] =
            [name |-> IconDouble(CanonicalOrder[k]), size |-> 2 * CanonicalOrder[k]]
  /\ \A i, j \in 1..Len(allSizes) : allSizes[i].name = allSizes[j].name => i = j
  /\ allSizes[2].size = allSizes[3].size
  /\ Len(hist.written) <= 14
  /\ \A i \in 1..Len(hist.written) : hist.written[i] = IconNameOrder[i]

\* a call has walked the whole plan
C4_Witness == Len(hist.written) = 14 /\ pc = "returned"

----------------------------------------------------------------------------
(* C9 *)

\* C9: for every planned edge length and every padding percent p in [0, 50)
\* whose content size is positive, the pipeline resizes to contentSize x
\* contentSize and extends by paddingPixels = round(edge * p / 100) on each
\* side: the canvas is edge x edge with the content at (paddingPixels,
\* paddingPixels), the same margin on all four sides, and the mask rectangle
\* at (paddingPixels, paddingPixels) with side contentSize; for p = 0 the
\* mask spans the canvas.
C9_RenderGeometry ==
  (entry = "createRoundedImage" /\ pc # "render_call") =>
    LET edge == options.size
        p == options.padding
    IN \A pp \in 0..edge :
         (IsRounded(pp, edge, p) /\ p.n < 50 * p.d /\ edge - 2 * pp > 0) =>
           /\ pc = "returned"
           /\ rounded.ok
           /\ rounded.canvas.width = edge
           /\ rounded.canvas.height = edge
           /\ rounded.canvas.contentX = pp
           /\ rounded.canvas.contentY = pp
           /\ rounded.canvas.contentWidth = edge - 2 * pp
           /\ rounded.canvas.contentHeight = edge - 2 * pp
           /\ rounded.canvas.width - rounded.canvas.contentX
                - rounded.canvas.contentWidth = pp
           /\ rounded.canvas.height - rounded.canvas.contentY
                - rounded.canvas.contentHeight = pp
           /\ rounded.mask.width = edge
           /\ rounded.mask.height = edge
           /\ rounded.mask.x = pp
           /\ rounded.mask.y = pp
           /\ rounded.mask.rectWidth = edge - 2 * pp
           /\ rounded.mask.rectHeight = edge - 2 * pp
           /\ (p.n = 0 =>
                 /\ pp = 0
                 /\ rounded.mask.x = 0
                 /\ rounded.mask.rectWidth = rounded.mask.width
                 /\ rounded.mask.rectHeight = rounded.mask.height)

\* a render at the default 8.75 percent of the 2048 pixel edge: 179 pixels a
\* side
C9_Witness ==
  /\ entry = "createRoundedImage"
  /\ pc = "returned"
  /\ options.size = 2048
  /\ options.padding = [n |-> 35, d |-> 4]
  /\ rounded.ok
  /\ rounded.canvas.contentX = 179
  /\ rounded.canvas.contentWidth = 1690

----------------------------------------------------------------------------
(* C11 *)

\* the staging directory holds exactly the files of the first n planned specs
StagedPrefix(n) ==
  /\ iconsetPath \in dirs
  /\ SubDirs(iconsetPath) = {}
  /\ PathsOf(Listing(iconsetPath)) =
       {Append(iconsetPath, IconNameOrder[i]) : i \in 1..n}
  /\ \A i \in 1..n : files[Append(iconsetPath, IconNameOrder[i])].kind = "png"

\* C11: renders happen one at a time in planner order (in the loop, the
\* files written so far are those of the specs before the current one), and
\* a failure at the k-th spec aborts the run: nothing after the k-th is
\* rendered or written, iconutil and the plain export are not run, the error
\* reaches the caller (the command line exits with code 1), and the staging
\* directory is left with exactly the files of the k-1 specs written before.
C11_RenderFailureAborts ==
  /\ pc = "set_loop" =>
       /\ idx \in 1..15
       /\ Len(hist.written) = idx - 1
       /\ \A i \in 1..(idx - 1) : hist.written[i] = IconNameOrder[i]
       /\ StagedPrefix(idx - 1)
  /\ err.type \in {"RenderFailed", "InvalidParameter"} =>
       /\ idx \in 1..14
       /\ Len(hist.written) = idx - 1
       /\ \A i \in 1..(idx - 1) : hist.written[i] = IconNameOrder[i]
       /\ StagedPrefix(idx - 1)
       /\ ~hist.setReturned
       /\ hist.packs = 0
       /\ hist.copied = <<>>
       /\ \A o \in hist.dirOps : o.by # "plain"
       /\ ~ret.returned
       /\ pc \in {"icns_catch", "cli_catch", "threw", "exited"}
       /\ (pc = "exited" => exitCode = 1)
       /\ exitCode \in {-1, 1}

\* the 8th render failed in a run over a staging directory that held files
\* before: the 7 files written so far are what is left
C11_Witness ==
  /\ err.type = "RenderFailed"
  /\ idx = 8
  /\ pc = "threw"
  /\ hist.staleStaged
  /\ Cardinality(Listing(iconsetPath)) = 7

====
